---- MODULE Spec2Model ----
(***************************************************************************)
(* A model of the analysis notebooks of DM_halo_models: the cells that     *)
(* fit halo models to the SPARC galaxies and print population statistics.  *)
(* The fitting engine (pyfiles.fitting.results) and the configuration      *)
(* builder (pyfiles.data_models.constants) are opaque to the notebooks: a  *)
(* call of fit() is modelled by the value it is given and a result table   *)
(* chosen nondeterministically.                                            *)
(***************************************************************************)
EXTENDS Integers, Sequences, FiniteSets, TLC

VARIABLES
    pc,               \* position in the notebook being run
    err,              \* the exception that ended the run, or "none"
    out,              \* what the statistics cells have printed so far
    CDM_params_dict,  \* model name -> result table of fit()
    BIC,              \* model name -> concatenated BIC array
    i,                \* index of the interval loop (0-based, as in the code)
    j,                \* index of the galaxy loop (0-based, as in the code)
    sum_0,            \* galaxies counted in the current interval
    diffin,           \* the last dBIC computed (masked when invalid)
    nb,               \* the notebook whose chi-square cell is run
    chisq,            \* Einasto check: model name -> concatenated Chi_sq array
    redchi,           \* DC14 check: the concatenated Chi_sq array of the last key
    env,              \* ULDM notebook: Python variable name -> value
    ip                \* ULDM notebook: index of the next statement to run

dc14vars == <<BIC, i, j, sum_0, diffin>>
dc14vars_but_i == <<BIC, j, sum_0, diffin>>
chivars == <<nb, chisq, redchi>>
uldmvars == <<env, ip>>
vars == <<pc, err, out, CDM_params_dict, BIC, i, j, sum_0, diffin, nb, chisq, redchi,
          env, ip>>

(***************************************************************************)
(* Bounds of the model.                                                    *)
(***************************************************************************)
\* The largest number of galaxies one result table holds (with and without
\* bulge together).
MaxGal == 2

\* The largest number of galaxies in a result table read by a chi-square cell.
MaxChiGal == 3

(***************************************************************************)
(* Floating-point values as the cells use them: finite values are exact    *)
(* rationals n/d, plus NaN, the two infinities and numpy's masked value.   *)
(***************************************************************************)
Rat(n, d) == [k |-> "fin", n |-> n, d |-> d]
Fin(x) == Rat(x, 1)
NaN == [k |-> "nan", n |-> 0, d |-> 1]
PosInf == [k |-> "pinf", n |-> 0, d |-> 1]
NegInf == [k |-> "ninf", n |-> 0, d |-> 1]
Masked == [k |-> "masked", n |-> 0, d |-> 1]

IsFin(a) == a.k = "fin"
IsNaN(a) == a.k = "nan"

\* a < b on floats; any comparison with NaN is False, and the truth value of
\* a comparison with a masked value is False.
Lt(a, b) ==
    CASE a.k = "fin" /\ b.k = "fin" -> a.n * b.d < b.n * a.d
      [] a.k = "ninf" /\ b.k \in {"fin", "pinf"} -> TRUE
      [] a.k = "fin" /\ b.k = "pinf" -> TRUE
      [] OTHER -> FALSE

\* a <= b on floats.
Le(a, b) ==
    CASE a.k = "fin" /\ b.k = "fin" -> a.n * b.d <= b.n * a.d
      [] a.k = "ninf" /\ b.k \in {"ninf", "fin", "pinf"} -> TRUE
      [] a.k \in {"fin", "pinf"} /\ b.k = "pinf" -> TRUE
      [] OTHER -> FALSE

\* a - b on floats (finite operands have denominator 1 here); NaN propagates.
Sub(a, b) ==
    IF a.k = "fin" /\ b.k = "fin"
    THEN Rat(a.n * b.d - b.n * a.d, a.d * b.d)
    ELSE NaN

\* Equality of printed values as numbers.
NumEq(a, b) ==
    IF a.k = "fin" /\ b.k = "fin" THEN a.n * b.d = b.n * a.d ELSE a.k = b.k

\* np.ma.masked_invalid on a scalar: NaN and the infinities become masked.
masked_invalid(x) == IF x.k = "fin" THEN x ELSE Masked

(***************************************************************************)
(* Result tables of fit().                                                 *)
(***************************************************************************)
\* {} : a dictionary with no entry.
EmptyDict == << >>

\* BIC values a fit may report.  The differences of two of them reach every
\* interval of interv_tab and each of its finite boundaries.
BICValues == {Fin(0), Fin(2), Fin(8), NaN}

SeqsUpTo(S, n) == UNION {[1..m -> S] : m \in 0..n}

\* The result tables fit() may return to the DC14 check: the BIC arrays of the
\* galaxies without and with a bulge.
BICTables ==
    {[Vbulge_none |-> [BIC |-> a], Vbulge |-> [BIC |-> b]] :
        <<a, b>> \in {p \in SeqsUpTo(BICValues, MaxGal) \X SeqsUpTo(BICValues, MaxGal) :
                        Len(p[1]) + Len(p[2]) <= MaxGal}}

\* for key in CDM_params_dict: the insertion order of {'DC14':{},'NFW':{}}.
DC14Keys == <<"DC14", "NFW">>

\* interv_tab of the dBIC cell (interv_tab_gap: a table whose last interval
\* starts at 8, leaving (6,8] uncovered).
interv_tab_gap ==
    <<  <<NegInf, Fin(-6)>>, <<Fin(-6), Fin(-2)>>, <<Fin(-2), Fin(2)>>,
        <<Fin(2), Fin(6)>>, <<Fin(8), PosInf>>  >>
interv_tab ==
    <<  <<NegInf, Fin(-6)>>, <<Fin(-6), Fin(-2)>>, <<Fin(-2), Fin(2)>>,
        <<Fin(2), Fin(6)>>, <<Fin(6), PosInf>>  >>

\* np.concatenate of the two arrays (without and with bulge) of one model.
\* (ConcatenateBulgeFirst: the two arrays in the other order.)
ConcatenateBulgeFirst(t, stat) == t["Vbulge"][stat] \o t["Vbulge_none"][stat]
Concatenate(t, stat) == t["Vbulge_none"][stat] \o t["Vbulge"][stat]

\* diffin=BIC['NFW'][j]-BIC['DC14'][j] followed by masked_invalid; j is 0-based.
\* (DiffinSwapped: the operands exchanged.)
DiffinSwapped(b, jj) == masked_invalid(Sub(b["DC14"][jj + 1], b["NFW"][jj + 1]))
Diffin(b, jj) == masked_invalid(Sub(b["NFW"][jj + 1], b["DC14"][jj + 1]))

\* interv_tab[i,0]<(diffin)<=interv_tab[i,1]; ii is 0-based.
\* (InIntervalClosed: the lower bound taken as closed too.)
InIntervalClosed(ii, d) == Le(interv_tab[ii + 1][1], d) /\ Le(d, interv_tab[ii + 1][2])
InInterval(ii, d) == Lt(interv_tab[ii + 1][1], d) /\ Le(d, interv_tab[ii + 1][2])

(***************************************************************************)
(* The DC14-vs-NFW check notebook: the fit cell and the dBIC cell.          *)
(***************************************************************************)
InitDC14 ==
    /\ pc = "fit"
    /\ err = "none"
    /\ out = << >>
    /\ CDM_params_dict = [key \in {"DC14", "NFW"} |-> EmptyDict]
    /\ BIC = [key \in {"DC14", "NFW"} |-> EmptyDict]
    /\ i = 0
    /\ j = 0
    /\ sum_0 = 0
    /\ diffin = NaN
    /\ nb = "checks_DC14_NFW"
    /\ chisq = EmptyDict
    /\ redchi = << >>
    /\ env = EmptyDict
    /\ ip = 0

\* for key in CDM_params_dict: CDM_params_dict[key]=res.fit()
FitDC14Check ==
    /\ pc = "fit"
    /\ \E t \in BICTables :
         LET key == DC14Keys[i + 1] IN
         CDM_params_dict' = [CDM_params_dict EXCEPT ![key] = t]
    /\ i' = IF i + 1 < Len(DC14Keys) THEN i + 1 ELSE 0
    /\ pc' = IF i + 1 < Len(DC14Keys) THEN "fit" ELSE "concat"
    /\ UNCHANGED <<err, out, BIC, j, sum_0, diffin>>
    /\ UNCHANGED <<chivars, uldmvars>>

\* for key in CDM_params_dict: BIC[key]=np.concatenate(...)
ConcatBIC ==
    /\ pc = "concat"
    /\ LET key == DC14Keys[i + 1] IN
         BIC' = [BIC EXCEPT ![key] = Concatenate(CDM_params_dict[key], "BIC")]
    /\ i' = IF i + 1 < Len(DC14Keys) THEN i + 1 ELSE 0
    /\ pc' = IF i + 1 < Len(DC14Keys) THEN "concat" ELSE "interval"
    /\ UNCHANGED <<err, out, CDM_params_dict, j, sum_0, diffin>>
    /\ UNCHANGED <<chivars, uldmvars>>

\* for i in range(len(interv_tab)): sum_0=0
IntervalStart ==
    /\ pc = "interval"
    /\ IF i < Len(interv_tab)
       THEN /\ sum_0' = 0
            /\ j' = 0
            /\ pc' = "galaxy"
       ELSE /\ pc' = "done"
            /\ UNCHANGED <<sum_0, j>>
    /\ UNCHANGED <<err, out, CDM_params_dict, BIC, i, diffin>>
    /\ UNCHANGED <<chivars, uldmvars>>

\* One pass of: for j in range(len(BIC['NFW'])).  Indexing BIC['DC14'] past its
\* end raises IndexError, which ends the cell.
\* (GalaxyStepStopAtMasked: the galaxy loop is left at the first masked dBIC.)
GalaxyStepStopAtMasked ==
    /\ pc = "galaxy"
    /\ j < Len(BIC["NFW"])
    /\ IF j >= Len(BIC["DC14"])
       THEN /\ pc' = "error"
            /\ err' = "IndexError"
            /\ UNCHANGED <<j, sum_0, diffin>>
       ELSE /\ diffin' = Diffin(BIC, j)
            /\ sum_0' = IF InInterval(i, Diffin(BIC, j)) THEN sum_0 + 1 ELSE sum_0
            /\ j' = IF Diffin(BIC, j) = Masked THEN Len(BIC["NFW"]) ELSE j + 1
            /\ UNCHANGED <<pc, err>>
    /\ UNCHANGED <<out, CDM_params_dict, BIC, i>>
    /\ UNCHANGED <<chivars, uldmvars>>
GalaxyStep ==
    /\ pc = "galaxy"
    /\ j < Len(BIC["NFW"])
    /\ IF j >= Len(BIC["DC14"])
       THEN /\ pc' = "error"
            /\ err' = "IndexError"
            /\ UNCHANGED <<j, sum_0, diffin>>
       ELSE /\ diffin' = Diffin(BIC, j)
            /\ sum_0' = IF InInterval(i, Diffin(BIC, j)) THEN sum_0 + 1 ELSE sum_0
            /\ j' = j + 1
            /\ UNCHANGED <<pc, err>>
    /\ UNCHANGED <<out, CDM_params_dict, BIC, i>>
    /\ UNCHANGED <<chivars, uldmvars>>

\* print(sum_0/len(BIC['NFW'])) after the galaxy loop; dividing by a length of
\* zero raises ZeroDivisionError.
IntervalPrint ==
    /\ pc = "galaxy"
    /\ j = Len(BIC["NFW"])
    /\ IF Len(BIC["NFW"]) = 0
       THEN /\ pc' = "error"
            /\ err' = "ZeroDivisionError"
            /\ UNCHANGED <<out, i>>
       ELSE /\ out' = Append(out, [lo |-> interv_tab[i + 1][1],
                                   hi |-> interv_tab[i + 1][2],
                                   value |-> Rat(sum_0, Len(BIC["NFW"]))])
            /\ i' = i + 1
            /\ pc' = "interval"
            /\ UNCHANGED err
    /\ UNCHANGED <<CDM_params_dict, BIC, j, sum_0, diffin>>
    /\ UNCHANGED <<chivars, uldmvars>>

NextDC14 ==
    \/ FitDC14Check
    \/ ConcatBIC
    \/ IntervalStart
    \/ GalaxyStep
    \/ IntervalPrint

SpecDC14 == InitDC14 /\ [][NextDC14]_vars

(***************************************************************************)
(* Claims about the dBIC cell of the DC14 check.                           *)
(***************************************************************************)
\* The concatenated BIC array of a model, read from the result tables.
BICOf(key) ==
    IF DOMAIN CDM_params_dict[key] = {} THEN << >>
    ELSE Concatenate(CDM_params_dict[key], "BIC")

\* The galaxies of the DC14 check, by their index in the NFW table.
GalaxiesNFW == 1..Len(BICOf("NFW"))

\* Both models hold a galaxy at every index.
SameGalaxySet == Len(BICOf("NFW")) = Len(BICOf("DC14"))

\* Galaxy g has a non-NaN BIC for both models.
BothValid(g) ==
    /\ g <= Len(BICOf("NFW")) /\ g <= Len(BICOf("DC14"))
    /\ IsFin(BICOf("NFW")[g]) /\ IsFin(BICOf("DC14")[g])

ValidGalaxies ==
    LET nfw == BICOf("NFW")
        dc14 == BICOf("DC14")
    IN  {g \in 1..Len(nfw) : g <= Len(dc14) /\ IsFin(nfw[g]) /\ IsFin(dc14[g])}

\* BIC_NFW - BIC_DC14 of a valid galaxy, as an integer.
DeltaBIC(g) == BICOf("NFW")[g].n - BICOf("DC14")[g].n

\* The five intervals written out: lower < x <= upper.
Within(r, x) ==
    CASE r = 1 -> x <= -6
      [] r = 2 -> -6 < x /\ x <= -2
      [] r = 3 -> -2 < x /\ x <= 2
      [] r = 4 -> 2 < x /\ x <= 6
      [] r = 5 -> 6 < x

RECURSIVE SumNumerators(_)
SumNumerators(o) ==
    IF o = << >> THEN 0 ELSE o[1].value.n + SumNumerators(Tail(o))

\* C1: when every galaxy has a finite BIC for both models, the cell prints five
\* fractions whose denominator is the number of galaxies and whose numerators
\* add up to that number, so the fractions sum to 1.
C1_FractionsSumToOne ==
    (pc = "done" /\ SameGalaxySet /\ ValidGalaxies = GalaxiesNFW) =>
        /\ Len(out) = 5
        /\ \A r \in 1..5 : out[r].value.d = Cardinality(GalaxiesNFW)
        /\ SumNumerators(out) = Cardinality(GalaxiesNFW)

\* C1 witness: a finished run over two valid galaxies, one of them with a dBIC
\* on an interval boundary.
C1_Witness ==
    /\ pc = "done" /\ SameGalaxySet /\ ValidGalaxies = GalaxiesNFW
    /\ Cardinality(GalaxiesNFW) = 2
    /\ \E g \in GalaxiesNFW : DeltaBIC(g) = -6
    /\ \E g \in GalaxiesNFW : DeltaBIC(g) = 8

\* C2: a galaxy whose BIC is NaN for either model is left out of the interval
\* counts and of the denominator: every printed fraction is the share of the
\* valid galaxies that fall in its interval.
C2_NaNLeftOutOfDenominator ==
    (pc = "done" /\ SameGalaxySet /\ ValidGalaxies # {}) =>
        \A r \in 1..Len(out) :
            NumEq(out[r].value,
                  Rat(Cardinality({g \in ValidGalaxies : Within(r, DeltaBIC(g))}),
                      Cardinality(ValidGalaxies)))

\* C3: when the two concatenated BIC arrays differ in length the cell never
\* finishes normally: it ends in an error.
C3_MismatchIsAnError ==
    pc = "done" => SameGalaxySet

\* C4: every printed count is the number of galaxies whose dBIC satisfies
\* lower < dBIC <= upper for that interval, so a dBIC on a boundary is counted
\* only where it is the upper bound, and no galaxy is counted twice.
C4_HalfOpenIntervals ==
    LET nfw == BICOf("NFW")
        dc14 == BICOf("DC14")
        valid == ValidGalaxies
    IN  /\ \A r \in 1..Len(out) :
              out[r].value.n =
                  Cardinality({g \in valid : Within(r, nfw[g].n - dc14[g].n)})
        /\ SumNumerators(out) <= Cardinality(valid)

\* C4 witness: a finished run in which dBIC values of -6, -2, 2 and 6 were binned.
C4_Witness ==
    /\ pc = "done"
    /\ \E g \in ValidGalaxies : DeltaBIC(g) \in {-6, 6}
    /\ \E g \in ValidGalaxies : DeltaBIC(g) \in {-2, 2}
    /\ Len(out) = 5

\* C5: the value binned for galaxy j is BIC_NFW[j] - BIC_DC14[j], in that
\* operand order in every pass of both loops, and it is the negation of the
\* difference taken the other way round.
C5_SignConvention ==
    (pc = "galaxy" /\ j > 0) =>
        IF BothValid(j)
        THEN /\ IsFin(diffin)
             /\ diffin.n = BICOf("NFW")[j].n - BICOf("DC14")[j].n
             /\ diffin.n = -(BICOf("DC14")[j].n - BICOf("NFW")[j].n)
        ELSE diffin = Masked

\* C5 witness: in a later interval's pass the cell has just computed a negative
\* dBIC for the second galaxy.
C5_Witness ==
    /\ pc = "galaxy" /\ j = 2 /\ i = 3
    /\ BothValid(j)
    /\ diffin = Fin(-6)

(***************************************************************************)
(* The chi-square cells of the Einasto check and of the DC14 check.        *)
(***************************************************************************)
\* Reduced chi-square values a fit may report.
ChiValues == {Fin(1), Fin(4), NaN}

\* The result tables fit() may return to a check notebook, as its chi-square
\* cell reads them: the Chi_sq arrays of the galaxies without and with a bulge.
ChiTables ==
    {[Vbulge_none |-> [Chi_sq |-> a], Vbulge |-> [Chi_sq |-> b]] :
        <<a, b>> \in {p \in SeqsUpTo(ChiValues, MaxChiGal) \X SeqsUpTo(ChiValues, MaxChiGal) :
                        Len(p[1]) + Len(p[2]) <= MaxChiGal}}

\* for key in CDM_params_dict, in insertion order, per notebook.
KeysOf(n) ==
    IF n = "checks_Einasto_NFW" THEN <<"Einasto", "NFW">> ELSE <<"DC14", "NFW">>

\* The non-NaN entries of an array, in order.
DropNaN(a) == SelectSeq(a, IsFin)

\* a[1..k] is sorted: place x into it.
RECURSIVE Insert(_, _)
Insert(a, x) ==
    IF a = << >> THEN <<x>>
    ELSE IF Le(x, a[1]) THEN <<x>> \o a
    ELSE <<a[1]>> \o Insert(Tail(a), x)

RECURSIVE Sort(_)
Sort(a) == IF a = << >> THEN << >> ELSE Insert(Sort(Tail(a)), a[1])

\* The median of a non-empty array of finite values.
Median(a) ==
    LET s == Sort(a)
        n == Len(s)
    IN  IF n % 2 = 1 THEN s[(n + 1) \div 2]
        ELSE Rat(s[n \div 2].n + s[n \div 2 + 1].n, 2)

RECURSIVE Sum(_)
Sum(a) == IF a = << >> THEN 0 ELSE a[1].n + Sum(Tail(a))

\* np.median: NaN as soon as one entry is NaN.
median(a) ==
    IF a = << >> \/ \E x \in 1..Len(a) : IsNaN(a[x]) THEN NaN ELSE Median(a)

\* np.nanmedian: the median of the non-NaN entries; NaN when there is none.
nanmedian(a) == IF DropNaN(a) = << >> THEN NaN ELSE Median(DropNaN(a))

\* np.nanmean: the mean of the non-NaN entries; NaN when there is none.
nanmean(a) ==
    IF DropNaN(a) = << >> THEN NaN ELSE Rat(Sum(DropNaN(a)), Len(DropNaN(a)))

InitChi ==
    /\ pc = "fit"
    /\ err = "none"
    /\ out = << >>
    /\ nb \in {"checks_Einasto_NFW", "checks_DC14_NFW"}
    /\ CDM_params_dict = [key \in {KeysOf(nb)[1], KeysOf(nb)[2]} |-> EmptyDict]
    /\ chisq = IF nb = "checks_Einasto_NFW"
               THEN [key \in {"Einasto", "NFW"} |-> EmptyDict]
               ELSE EmptyDict
    /\ redchi = << >>
    /\ i = 0
    /\ BIC = EmptyDict /\ j = 0 /\ sum_0 = 0 /\ diffin = NaN
    /\ env = EmptyDict
    /\ ip = 0

\* for key in CDM_params_dict: CDM_params_dict[key]=res.fit()
FitCheck ==
    /\ pc = "fit"
    /\ \E t \in ChiTables :
         CDM_params_dict' = [CDM_params_dict EXCEPT ![KeysOf(nb)[i + 1]] = t]
    /\ i' = IF i + 1 < Len(KeysOf(nb)) THEN i + 1 ELSE 0
    /\ pc' = IF i + 1 < Len(KeysOf(nb)) THEN "fit" ELSE "chisq"
    /\ UNCHANGED <<err, out, chivars, dc14vars_but_i, uldmvars>>

\* Einasto check, one pass of the loop over the keys: concatenate the Chi_sq
\* arrays, print their nanmedian, then their nanmean.
EinastoChisqCell ==
    /\ pc = "chisq"
    /\ nb = "checks_Einasto_NFW"
    /\ LET key == KeysOf(nb)[i + 1]
           c == Concatenate(CDM_params_dict[key], "Chi_sq")
       IN  /\ chisq' = [chisq EXCEPT ![key] = c]
           /\ out' = out \o << [key |-> key, stat |-> "Median", value |-> nanmedian(c)],
                               [key |-> key, stat |-> "Mean", value |-> nanmean(c)] >>
    /\ i' = IF i + 1 < Len(KeysOf(nb)) THEN i + 1 ELSE 0
    /\ pc' = IF i + 1 < Len(KeysOf(nb)) THEN "chisq" ELSE "done"
    /\ UNCHANGED <<err, CDM_params_dict, nb, redchi, dc14vars_but_i, uldmvars>>

\* DC14 check, one pass of the loop over the keys: concatenate the Chi_sq
\* arrays and print their nanmedian.
DC14MedianCell ==
    /\ pc = "chisq"
    /\ nb = "checks_DC14_NFW"
    /\ LET key == KeysOf(nb)[i + 1]
           c == Concatenate(CDM_params_dict[key], "Chi_sq")
       IN  /\ redchi' = c
           /\ out' = Append(out, [key |-> key, stat |-> "Median", value |-> nanmedian(c)])
    /\ i' = IF i + 1 < Len(KeysOf(nb)) THEN i + 1 ELSE 0
    /\ pc' = IF i + 1 < Len(KeysOf(nb)) THEN "chisq" ELSE "done"
    /\ UNCHANGED <<err, CDM_params_dict, nb, chisq, dc14vars_but_i, uldmvars>>

NextChi ==
    \/ FitCheck
    \/ EinastoChisqCell
    \/ DC14MedianCell

SpecChi == InitChi /\ [][NextChi]_vars

(***************************************************************************)
(* Claims about the chi-square cells.                                      *)
(***************************************************************************)
\* The concatenated Chi_sq array of a model, read from the result tables.
ChiOf(key) ==
    IF DOMAIN CDM_params_dict[key] = {} THEN << >>
    ELSE Concatenate(CDM_params_dict[key], "Chi_sq")

\* The galaxies (indices) at which model key has a non-NaN chi-square.
OwnValid(key) == LET a == ChiOf(key) IN {g \in 1..Len(a) : IsFin(a[g])}

\* The galaxies at which both models of the notebook have a non-NaN chi-square.
CommonValid == OwnValid(KeysOf(nb)[1]) \cap OwnValid(KeysOf(nb)[2])

\* The k-th smallest entry of array a among the indices G.
KthSmallest(a, G, k) ==
    CHOOSE v \in {a[g].n : g \in G} :
        /\ Cardinality({g \in G : a[g].n < v}) < k
        /\ k <= Cardinality({g \in G : a[g].n <= v})

\* The median of model key over the galaxies G, by order statistics.
MedianOver(key, G) ==
    LET n == Cardinality(G)
        a == ChiOf(key)
    IN  IF n = 0 THEN NaN
        ELSE IF n % 2 = 1 THEN Fin(KthSmallest(a, G, (n + 1) \div 2))
        ELSE Rat(KthSmallest(a, G, n \div 2) + KthSmallest(a, G, n \div 2 + 1), 2)

RECURSIVE TotalOver(_, _)
TotalOver(a, G) ==
    IF G = {} THEN 0
    ELSE LET g == CHOOSE x \in G : TRUE
         IN  a[g].n + TotalOver(a, G \ {g})

\* The mean of model key over the galaxies G.
MeanOver(key, G) ==
    IF G = {} THEN NaN ELSE Rat(TotalOver(ChiOf(key), G), Cardinality(G))

StatOver(stat, key, G) ==
    IF stat = "Median" THEN MedianOver(key, G) ELSE MeanOver(key, G)

\* C6: the median and mean printed for each model are taken over the galaxies
\* that are non-NaN for both models of the notebook.
C6_SameValidSubset ==
    (pc = "done" /\ Len(ChiOf(KeysOf(nb)[1])) = Len(ChiOf(KeysOf(nb)[2]))) =>
        \A p \in 1..Len(out) :
            NumEq(out[p].value, StatOver(out[p].stat, out[p].key, CommonValid))

\* C7: every printed median and mean is the statistic of the non-NaN entries of
\* that model's concatenated array alone: it is what the order statistics and
\* the total of those entries give, whatever NaN entries the array holds.
C7_NaNExcludedFromAggregates ==
    \A p \in 1..Len(out) :
        NumEq(out[p].value, StatOver(out[p].stat, out[p].key, OwnValid(out[p].key)))

\* C7 witness: a finished run of the Einasto check in which a model with two
\* converged galaxies, given out of order, and one NaN galaxy got a finite
\* median and mean.
C7_Witness ==
    /\ pc = "done" /\ nb = "checks_Einasto_NFW"
    /\ ChiOf("Einasto") = <<Fin(4), NaN, Fin(1)>>
    /\ Len(out) = 4
    /\ NumEq(out[1].value, Rat(5, 2))
    /\ out[2].value = Rat(5, 2)

(***************************************************************************)
(* The ULDM notebook (fits_Einasto.ipynb): its cells as a list of          *)
(* statements, run in order.  Python values are records tagged by kind.    *)
(***************************************************************************)
\* Particle masses in units of m22, written as 10 * log10(mass):
\* m22_ex=10**(1.5) and m22_2_ex=10**(1.8).
m22_ex == 15
m22_2_ex == 18

\* name_tab of the rotation-curve cells: galaxies of the fitted catalog.
name_tab == {"NGC5055", "NGC3109"}

Undefined == [kind |-> "undef"]
PyTrue == [kind |-> "bool", v |-> <<1>>]
PyNum(x) == [kind |-> "num", v |-> <<x>>]
PyArr(a) == [kind |-> "array", v |-> a]
PyList(S) == [kind |-> "list", s |-> S]
\* {k: {} for k in keys}; with no keys, {}.
PyDict(keys) ==
    [kind |-> "dict",
     d |-> [k \in {keys[x] : x \in 1..Len(keys)} |-> [kind |-> "dict", d |-> EmptyDict]]]

\* Expressions given as keyword arguments.
ETrue == [e |-> "True"]
EVar(v) == [e |-> "var", var |-> v]
EAsArray(v) == [e |-> "asarray", var |-> v]

\* np.asarray([x]) of a number x: the one-element array holding it.
asarray(x) == PyArr(x.v)

Eval(x, e) ==
    CASE x.e = "True" -> PyTrue
      [] x.e = "var" -> e[x.var]
      [] x.e = "asarray" -> asarray(e[x.var])

\* Statements.
SDict(var, keys) == [op |-> "dict", var |-> var, keys |-> keys]
SAssign(var, val) == [op |-> "assign", var |-> var, val |-> val]
SFitDict(kw) == [op |-> "fitting_dict", kw |-> kw]
SResults(cls, model, with_fit_dict, uldm) ==
    [op |-> "results", cls |-> cls, model |-> model,
     with_fit_dict |-> with_fit_dict, ULDM_fits |-> uldm]
SFit(var, key) == [op |-> "fit", var |-> var, key |-> key]
SPlots == [op |-> "plots"]
SPlot(method, args, with_fit_dict) ==
    [op |-> "plot", method |-> method, args |-> args, with_fit_dict |-> with_fit_dict]

\* CDM_params_dict={}; res=results.results_CDM_all('Einasto',ULDM_fits=True);
\* CDM_params_dict=res.fit()
EinastoFitCell ==
    << SDict("CDM_params_dict", << >>),
       SResults("results_CDM_all", "Einasto", FALSE, TRUE),
       SFit("CDM_params_dict", "") >>

\* psis...={'Summed':{},'Matched':{}}; psim...={'Summed':{},'Matched':{}}
PsiDicts(ds, dm) ==
    << SDict(ds, <<"Summed", "Matched">>), SDict(dm, <<"Summed", "Matched">>) >>

\* The four fits of a ULDM cell: single and multi model, each built from its
\* own fitting_dict and stored under keys[1..4] of the single / multi dictionary.
PsiFits(ds, dm, kw, keys) ==
    << SFitDict(kw[1]), SResults("results_psi_single_all", "", TRUE, FALSE), SFit(ds, keys[1]),
       SFitDict(kw[2]), SResults("results_psi_multi_all", "", TRUE, FALSE), SFit(dm, keys[2]),
       SFitDict(kw[3]), SResults("results_psi_single_all", "", TRUE, FALSE), SFit(ds, keys[3]),
       SFitDict(kw[4]), SResults("results_psi_multi_all", "", TRUE, FALSE), SFit(dm, keys[4]) >>

SummedThenMatched == <<"Summed", "Summed", "Matched", "Matched">>

\* Keyword arguments of the four fitting_dict calls of each ULDM fit cell.
MassFreeKwargs ==
    << << <<"sol_mfree", ETrue>> >>,
       << <<"sol_mfree", ETrue>> >>,
       << <<"sol_mfree", ETrue>>, <<"sol_match", ETrue>> >>,
       << <<"sol_mfree", ETrue>>, <<"sol_match", ETrue>> >> >>

ScanKwargs ==
    << << >>,
       << >>,
       << <<"sol_match", ETrue>> >>,
       << <<"sol_match", ETrue>> >> >>

\* Best-fit-mass cell.  Two faulty variants come first: one misspells an
\* option name, one gives the multi model the single model's mass.
BestFitKwargsUnknownOption ==
    << << <<"sol_m22_tab_prime", EAsArray("m22_ex")>> >>,
       << <<"sol_m22_2_tab_prime", EAsArray("m22_2_ex")>> >>,
       << <<"sol_match", ETrue>>, <<"sol_m22_table", EAsArray("m22_ex")>> >>,
       << <<"sol_match", ETrue>>, <<"sol_m22_2_tab", EAsArray("m22_2_ex")>> >> >>

BestFitKwargsSameMass ==
    << << <<"sol_m22_tab_prime", EAsArray("m22_ex")>> >>,
       << <<"sol_m22_2_tab_prime", EAsArray("m22_2_ex")>> >>,
       << <<"sol_match", ETrue>>, <<"sol_m22_tab", EAsArray("m22_ex")>> >>,
       << <<"sol_match", ETrue>>, <<"sol_m22_2_tab", EAsArray("m22_ex")>> >> >>

BestFitKwargs ==
    << << <<"sol_m22_tab_prime", EAsArray("m22_ex")>> >>,
       << <<"sol_m22_2_tab_prime", EAsArray("m22_2_ex")>> >>,
       << <<"sol_match", ETrue>>, <<"sol_m22_tab", EAsArray("m22_ex")>> >>,
       << <<"sol_match", ETrue>>, <<"sol_m22_2_tab", EAsArray("m22_2_ex")>> >> >>

\* Particle mass free: ULDM fits cell.  (Miskeyed: the single model's matched
\* fit stored under 'Summed'.  SummedOnly: the two 'Matched' fits left out.)
MassFreeFitCellSummedOnly ==
    PsiDicts("psis_m_params_dict", "psim_m_params_dict")
    \o SubSeq(PsiFits("psis_m_params_dict", "psim_m_params_dict", MassFreeKwargs,
                      SummedThenMatched), 1, 6)
MassFreeFitCellMiskeyed ==
    PsiDicts("psis_m_params_dict", "psim_m_params_dict")
    \o PsiFits("psis_m_params_dict", "psim_m_params_dict", MassFreeKwargs,
               <<"Summed", "Summed", "Summed", "Matched">>)
MassFreeFitCell ==
    PsiDicts("psis_m_params_dict", "psim_m_params_dict")
    \o PsiFits("psis_m_params_dict", "psim_m_params_dict", MassFreeKwargs,
               SummedThenMatched)

\* Particle mass fixed - scan: ULDM fits cell.  (ScanFitCellOverwrites: the scan
\* stored in the dictionaries of the mass-free mode.)
ScanFitCellOverwrites ==
    PsiDicts("psis_m_params_dict", "psim_m_params_dict")
    \o PsiFits("psis_m_params_dict", "psim_m_params_dict", ScanKwargs, SummedThenMatched)
ScanFitCell ==
    PsiDicts("psis_params_dict", "psim_params_dict")
    \o PsiFits("psis_params_dict", "psim_params_dict", ScanKwargs, SummedThenMatched)

\* Particle mass fixed - best fit masses: ULDM fits cell.
BestFitFitCell ==
    PsiDicts("psis_params_dict_ex", "psim_params_dict_ex")
    \o << SAssign("m22_ex", PyNum(m22_ex)), SAssign("m22_2_ex", PyNum(m22_2_ex)) >>
    \o PsiFits("psis_params_dict_ex", "psim_params_dict_ex", BestFitKwargs,
               SummedThenMatched)

\* res=results.plots(); res.<method>(<dictionaries>)
PlotCell(method, args) == << SPlots, SPlot(method, args, FALSE) >>

\* fit_dict_ex=constants.fitting_dict(...); name_tab=[...]; res=results.plots();
\* res.rotcurves_psi_all(name_tab,fit_dict_in=fit_dict_ex,size=(30,20)), twice.
RotCurvesCell(kw1, kw2) ==
    << SFitDict(kw1), SAssign("name_tab", PyList(name_tab)), SPlots,
       SPlot("rotcurves_psi_all", <<"name_tab">>, TRUE),
       SFitDict(kw2), SAssign("name_tab", PyList(name_tab)), SPlots,
       SPlot("rotcurves_psi_all", <<"name_tab">>, TRUE) >>

MassFreeDicts == <<"psis_m_params_dict", "psim_m_params_dict">>
ScanDicts == <<"psis_params_dict", "psim_params_dict">>
BestFitDicts == <<"psis_params_dict_ex", "psim_params_dict_ex">>

\* The cells of the notebook, top to bottom.
Program ==
    EinastoFitCell
    \o MassFreeFitCell
    \o PlotCell("BIC_psi_mfree", MassFreeDicts \o <<"CDM_params_dict">>)
    \o PlotCell("chi_psi_mfree", MassFreeDicts \o <<"CDM_params_dict">>)
    \o PlotCell("Msol_psi_mfree", MassFreeDicts)
    \o PlotCell("chi_dist_psi_mfree", MassFreeDicts)
    \o PlotCell("params_dist_psi_mfree", MassFreeDicts)
    \o RotCurvesCell(<< <<"sol_mfree", ETrue>> >>,
                     << <<"sol_mfree", ETrue>>, <<"sol_match", ETrue>> >>)
    \o PlotCell("relations_psi_mfree", MassFreeDicts)
    \o ScanFitCell
    \o PlotCell("chi_psi_mfix", ScanDicts \o <<"CDM_params_dict">>)
    \o PlotCell("chi_gal_psi_mfix", <<"psis_params_dict", "CDM_params_dict">>)
    \o PlotCell("Msol_psi_mfix", ScanDicts)
    \o BestFitFitCell
    \o PlotCell("BIC_psi_mfix_ex", BestFitDicts \o <<"CDM_params_dict">>)
    \o PlotCell("chi_psi_mfix_ex", BestFitDicts \o <<"CDM_params_dict">>)
    \o PlotCell("Msol_psi_mfix_ex", BestFitDicts)
    \o PlotCell("chi_dist_psi_mfix_ex", BestFitDicts)
    \o PlotCell("params_dist_psi_mfix_ex", BestFitDicts)
    \o RotCurvesCell(<< <<"sol_m22", EVar("m22_ex")>>, <<"sol_m22_2", EVar("m22_2_ex")>> >>,
                     << <<"sol_match", ETrue>>, <<"sol_m22", EVar("m22_ex")>>,
                        <<"sol_m22_2", EVar("m22_2_ex")>> >>)
    \o PlotCell("relations_psi_mfix_ex", BestFitDicts)

\* The Python names the notebook assigns.
VarNames ==
    {"CDM_params_dict", "res", "fit_dict_ex", "name_tab", "m22_ex", "m22_2_ex",
     "psis_m_params_dict", "psim_m_params_dict", "psis_params_dict", "psim_params_dict",
     "psis_params_dict_ex", "psim_params_dict_ex"}

\* constants.fitting_dict(**kw): the configuration, as far as the call shows
\* it: the options passed, each with its value.
fitting_dict(kw, e) ==
    [kind |-> "fit_dict",
     kwargs |-> [o \in {kw[x][1] : x \in 1..Len(kw)} |->
                    Eval(kw[CHOOSE x \in 1..Len(kw) : kw[x][1] = o][2], e)]]

\* The result table of res.fit(): which fit produced it (the results class, its
\* model and the configuration it was built from) and whether some galaxy's
\* statistics came out NaN.
FitResult(r, nan) ==
    [kind |-> "table", cls |-> r.cls, model |-> r.model, kwargs |-> r.kwargs,
     ULDM_fits |-> r.ULDM_fits, nan |-> nan]

\* var[key]=value on a dictionary value.
SetItem(dict, key, value) ==
    [dict EXCEPT !.d = [k \in DOMAIN dict.d \cup {key} |->
                            IF k = key THEN value ELSE dict.d[k]]]

InitULDM ==
    /\ pc = "run"
    /\ err = "none"
    /\ out = << >>
    /\ env = [v \in VarNames |-> Undefined]
    /\ ip = 1
    /\ CDM_params_dict = EmptyDict
    /\ BIC = EmptyDict /\ i = 0 /\ j = 0 /\ sum_0 = 0 /\ diffin = NaN
    /\ nb = "fits_Einasto" /\ chisq = EmptyDict /\ redchi = << >>

Running(op) == pc = "run" /\ ip <= Len(Program) /\ Program[ip].op = op

others == <<err, CDM_params_dict, dc14vars, chivars>>

\* var={...}
ExecDict ==
    /\ Running("dict")
    /\ env' = [env EXCEPT ![Program[ip].var] = PyDict(Program[ip].keys)]
    /\ ip' = ip + 1
    /\ UNCHANGED <<pc, out, others>>

\* var=value
ExecAssign ==
    /\ Running("assign")
    /\ env' = [env EXCEPT ![Program[ip].var] = Program[ip].val]
    /\ ip' = ip + 1
    /\ UNCHANGED <<pc, out, others>>

\* fit_dict_ex=constants.fitting_dict(...)
ExecFittingDict ==
    /\ Running("fitting_dict")
    /\ env' = [env EXCEPT !["fit_dict_ex"] = fitting_dict(Program[ip].kw, env)]
    /\ ip' = ip + 1
    /\ UNCHANGED <<pc, out, others>>

\* res=results.results_...(fit_dict_in=fit_dict_ex) or
\* res=results.results_CDM_all('Einasto',ULDM_fits=True)
ExecResults ==
    /\ Running("results")
    /\ env' = [env EXCEPT !["res"] =
                 [kind |-> "results", cls |-> Program[ip].cls, model |-> Program[ip].model,
                  kwargs |-> IF Program[ip].with_fit_dict
                             THEN env["fit_dict_ex"].kwargs ELSE EmptyDict,
                  ULDM_fits |-> Program[ip].ULDM_fits]]
    /\ ip' = ip + 1
    /\ UNCHANGED <<pc, out, others>>

\* var[key]=res.fit(), or var=res.fit()
ExecFit ==
    /\ Running("fit")
    /\ \E nan \in BOOLEAN :
         LET t == FitResult(env["res"], nan) IN
         env' = [env EXCEPT ![Program[ip].var] =
                    IF Program[ip].key = "" THEN t ELSE SetItem(@, Program[ip].key, t)]
    /\ ip' = ip + 1
    /\ UNCHANGED <<pc, out, others>>

\* res=results.plots()
ExecPlots ==
    /\ Running("plots")
    /\ env' = [env EXCEPT !["res"] = [kind |-> "plots"]]
    /\ ip' = ip + 1
    /\ UNCHANGED <<pc, out, others>>

\* res.<method>(...): the figure is recorded by the method's name.
ExecPlot ==
    /\ Running("plot")
    /\ out' = Append(out, Program[ip].method)
    /\ ip' = ip + 1
    /\ UNCHANGED <<pc, env, others>>

\* The last cell has run.
Finish ==
    /\ pc = "run"
    /\ ip > Len(Program)
    /\ pc' = "done"
    /\ UNCHANGED <<ip, env, out, others>>

NextULDM ==
    \/ ExecDict
    \/ ExecAssign
    \/ ExecFittingDict
    \/ ExecResults
    \/ ExecFit
    \/ ExecPlots
    \/ ExecPlot
    \/ Finish

SpecULDM == InitULDM /\ [][NextULDM]_vars

(***************************************************************************)
(* Claims about the ULDM notebook.                                         *)
(***************************************************************************)
PsiDictNames == {"psis_m_params_dict", "psim_m_params_dict", "psis_params_dict",
                 "psim_params_dict", "psis_params_dict_ex", "psim_params_dict_ex"}
SingleDictNames == {"psis_m_params_dict", "psis_params_dict", "psis_params_dict_ex"}
BestFitDictNames == {"psis_params_dict_ex", "psim_params_dict_ex"}

IsDict(x) == x.kind = "dict"
IsTable(x) == x.kind = "table"

\* The entry of dictionary variable d under key holds a result table.
Stored(d, key) ==
    /\ IsDict(env[d])
    /\ key \in DOMAIN env[d].d
    /\ IsTable(env[d].d[key])

\* The option o was passed, with value True, to the configuration of table t.
PassedTrue(t, o) == o \in DOMAIN t.kwargs /\ t.kwargs[o] = PyTrue

\* C8: in each of the three particle-mass modes and for both wave models the
\* dictionary keeps the two fits under the keys 'Summed' and 'Matched': the
\* table under 'Matched' comes from the right results class configured with
\* sol_match=True, the table under 'Summed' from one configured without
\* sol_match, the 'Summed' table is still in place once 'Matched' is stored,
\* and at the end of the notebook all twelve entries hold their table.
C8_SummedAndMatchedKeptApart ==
    /\ \A d \in PsiDictNames :
          IsDict(env[d]) =>
             /\ DOMAIN env[d].d = {"Summed", "Matched"}
             /\ \A key \in {"Summed", "Matched"} :
                   Stored(d, key) =>
                      /\ env[d].d[key].cls = IF d \in SingleDictNames
                                             THEN "results_psi_single_all"
                                             ELSE "results_psi_multi_all"
                      /\ PassedTrue(env[d].d[key], "sol_match") <=> key = "Matched"
                      /\ "sol_match" \in DOMAIN env[d].d[key].kwargs <=> key = "Matched"
                      /\ PassedTrue(env[d].d[key], "sol_mfree")
                            <=> d \in {"psis_m_params_dict", "psim_m_params_dict"}
             /\ Stored(d, "Matched") => Stored(d, "Summed")
    /\ pc = "done" =>
          \A d \in PsiDictNames : Stored(d, "Summed") /\ Stored(d, "Matched")

\* C8 witness: the notebook has finished and, in the mass-free single model,
\* the 'Summed' and 'Matched' tables differ in their outcome as well.
C8_Witness ==
    /\ pc = "done"
    /\ Stored("psis_m_params_dict", "Summed") /\ Stored("psis_m_params_dict", "Matched")
    /\ env["psis_m_params_dict"].d["Summed"].nan
    /\ ~env["psis_m_params_dict"].d["Matched"].nan

\* The recognized options of the configuration surface.
RecognizedOptions ==
    {"fit_routine", "sol_mfree", "sol_match", "sol_m22", "sol_m22_2", "sol_m22_tab",
     "sol_m22_2_tab", "Vbulge"}

\* The options of the fitting_dict calls of the other notebooks (the CDM fits
\* and the three checks): each passes fit_routine only.
OtherNotebookOptions == {"fit_routine"}

\* The options passed to the fitting_dict call that built fit_dict_ex.
LastOptions ==
    IF env["fit_dict_ex"].kind = "fit_dict" THEN DOMAIN env["fit_dict_ex"].kwargs ELSE {}

\* The options of the configuration behind a stored table.
OptionsOf(d, key) == DOMAIN env[d].d[key].kwargs

\* C9 as stated: every option passed to fitting_dict is a recognized one, and
\* the best-fit-mass fits pass their mass through sol_m22_tab (single model) or
\* sol_m22_2_tab (multi model), 'Summed' and 'Matched' alike.
C9_OnlyRecognizedOptions ==
    /\ LastOptions \subseteq RecognizedOptions
    /\ OtherNotebookOptions \subseteq RecognizedOptions
    /\ \A key \in {"Summed", "Matched"} :
          /\ Stored("psis_params_dict_ex", key) =>
                "sol_m22_tab" \in OptionsOf("psis_params_dict_ex", key)
          /\ Stored("psim_params_dict_ex", key) =>
                "sol_m22_2_tab" \in OptionsOf("psim_params_dict_ex", key)

\* C9 amended: every option passed to fitting_dict is a recognized one or one
\* of sol_m22_tab_prime, sol_m22_2_tab_prime; the 'Matched' best-fit-mass fits
\* pass their mass through sol_m22_tab / sol_m22_2_tab, the 'Summed' ones
\* through sol_m22_tab_prime / sol_m22_2_tab_prime.
C9_OptionsWithPrimeTables ==
    /\ LastOptions \subseteq RecognizedOptions \cup {"sol_m22_tab_prime", "sol_m22_2_tab_prime"}
    /\ OtherNotebookOptions \subseteq RecognizedOptions
    /\ Stored("psis_params_dict_ex", "Summed") =>
          OptionsOf("psis_params_dict_ex", "Summed") = {"sol_m22_tab_prime"}
    /\ Stored("psim_params_dict_ex", "Summed") =>
          OptionsOf("psim_params_dict_ex", "Summed") = {"sol_m22_2_tab_prime"}
    /\ Stored("psis_params_dict_ex", "Matched") =>
          OptionsOf("psis_params_dict_ex", "Matched") = {"sol_match", "sol_m22_tab"}
    /\ Stored("psim_params_dict_ex", "Matched") =>
          OptionsOf("psim_params_dict_ex", "Matched") = {"sol_match", "sol_m22_2_tab"}

\* C9 witness: the four best-fit-mass fits are stored and the rotation-curve
\* cell has just built a configuration from sol_m22 and sol_m22_2.
C9_Witness ==
    /\ \A d \in BestFitDictNames : Stored(d, "Summed") /\ Stored(d, "Matched")
    /\ LastOptions = {"sol_m22", "sol_m22_2"}

\* The mass arrays passed to the configuration behind a stored table.
MassOptions ==
    {"sol_m22_tab", "sol_m22_tab_prime", "sol_m22_2_tab", "sol_m22_2_tab_prime"}
MassArrays(d, key) ==
    {env[d].d[key].kwargs[o] : o \in OptionsOf(d, key) \cap MassOptions}

\* C10 as stated: a best-fit-mass fit is given one mass scalar per galaxy, each
\* galaxy's own.
C10_OneMassPerGalaxy ==
    \A d \in BestFitDictNames, key \in {"Summed", "Matched"} :
        Stored(d, key) =>
            \A a \in MassArrays(d, key) : Len(a.v) = Cardinality(name_tab)

\* C10 amended: a best-fit-mass fit is given exactly one mass array, holding a
\* single value that all galaxies share: m22_ex for the single model and
\* m22_2_ex for the multi model.
C10_OneSharedMass ==
    \A d \in BestFitDictNames, key \in {"Summed", "Matched"} :
        Stored(d, key) =>
            MassArrays(d, key) =
                {PyArr(<<IF d \in SingleDictNames THEN m22_ex ELSE m22_2_ex>>)}

\* C10 witness: the notebook has finished with the four best-fit-mass tables
\* stored, over a catalog of more than one galaxy.
C10_Witness ==
    /\ pc = "done"
    /\ \A d \in BestFitDictNames : Stored(d, "Summed") /\ Stored(d, "Matched")
    /\ Cardinality(name_tab) > 1
    /\ env["name_tab"] = PyList(name_tab)

(***************************************************************************)
(* The CDM notebook (fits_CDM_all.ipynb): the loop over prior regimes and  *)
(* models, then its plot cells.                                            *)
(***************************************************************************)
\* The largest number of fits of one notebook run that come back with NaN
\* statistics.
MaxNaNFits == 2

prior_tab ==
    <<"uni_priors", "c200_priors_check", "v200_priors_check", "MLd_priors_check",
      "MLb_priors_check">>
model_tab == <<"Burkert", "DC14", "Einasto", "NFW">>

PyStr(s) == [kind |-> "str", str |-> s]

\* Whether fit() raises when a galaxy's optimizer fails, instead of returning
\* NaN statistics for it: by the design document's failure policy it does not.
fit_raises_on_failure == FALSE

\* results.results_CDM_all(model,fit_dict_in=fd): the results object of a CDM
\* fit; ULDM_fits is not passed.
results_CDM_all(model, fd) ==
    [kind |-> "results", cls |-> "results_CDM_all", model |-> model,
     kwargs |-> fd.kwargs, ULDM_fits |-> FALSE]

\* constants.fitting_dict(fit_routine=prior_tab[i]); ii is 0-based.
\* (PriorConfigFirstOnly: every regime configured as prior_tab[0].
\*  PriorConfigMassFree: sol_mfree=True passed along with fit_routine.)
PriorConfigMassFree(ii) ==
    fitting_dict(<< <<"fit_routine", EVar("prior_tab[i]")>>, <<"sol_mfree", ETrue>> >>,
                 [v \in {"prior_tab[i]"} |-> PyStr(prior_tab[ii + 1])])
PriorConfigFirstOnly(ii) ==
    fitting_dict(<< <<"fit_routine", EVar("prior_tab[i]")>> >>,
                 [v \in {"prior_tab[i]"} |-> PyStr(prior_tab[1])])
PriorConfig(ii) ==
    fitting_dict(<< <<"fit_routine", EVar("prior_tab[i]")>> >>,
                 [v \in {"prior_tab[i]"} |-> PyStr(prior_tab[ii + 1])])

\* dict[key]=value on a plain dictionary.
DictSet(dict, key, value) ==
    [k \in DOMAIN dict \cup {key} |-> IF k = key THEN value ELSE dict[k]]

\* The result tables stored so far in CDM_params_dict[prior][model], as pairs.
StoredCDM ==
    {pm \in {<<p, m>> : p \in DOMAIN CDM_params_dict,
                        m \in {model_tab[x] : x \in 1..Len(model_tab)}} :
        pm[2] \in DOMAIN CDM_params_dict[pm[1]]}

\* The outcomes fit() may have now: at most MaxNaNFits tables of a run hold NaN.
NaNChoices ==
    IF Cardinality({pm \in StoredCDM : CDM_params_dict[pm[1]][pm[2]].nan}) < MaxNaNFits
    THEN BOOLEAN ELSE {FALSE}

\* The plot cells below the loop: the method called and the argument it is
\* given ("all": CDM_params_dict; "uni_priors": CDM_params_dict['uni_priors']).
CDMPlotCells ==
    << [method |-> "BIC_diffs_CDM", arg |-> "all"],
       [method |-> "BIC_CDM", arg |-> "uni_priors"],
       [method |-> "chi_CDM", arg |-> "uni_priors"],
       [method |-> "chi_dist_CDM", arg |-> "uni_priors"],
       [method |-> "params_dist_CDM", arg |-> "uni_priors"],
       [method |-> "rotcurves_CDM_all", arg |-> "name_tab"],
       [method |-> "MLd_degen_CDM", arg |-> "none"],
       [method |-> "relations_CDM", arg |-> "uni_priors"] >>

InitCDM ==
    /\ pc = "cdm_start"
    /\ err = "none"
    /\ out = << >>
    /\ CDM_params_dict = EmptyDict
    /\ i = 0
    /\ j = 0
    /\ env = [v \in {"res", "name_tab"} |-> Undefined]
    /\ ip = 1
    /\ nb = "fits_CDM_all"
    /\ BIC = EmptyDict /\ sum_0 = 0 /\ diffin = NaN
    /\ chisq = EmptyDict /\ redchi = << >>

cdmothers == <<BIC, sum_0, diffin, chivars>>

\* prior_tab=[...]; model_tab=[...]; CDM_params_dict={}
CDMStart ==
    /\ pc = "cdm_start"
    /\ CDM_params_dict' = EmptyDict
    /\ i' = 0
    /\ pc' = "cdm_prior"
    /\ UNCHANGED <<err, out, j, env, ip, cdmothers>>

\* for i in range(len(prior_tab)): CDM_params_dict[prior_tab[i]]={}
\* After the last regime the plot cells follow.
CDMPriorStep ==
    /\ pc = "cdm_prior"
    /\ IF i < Len(prior_tab)
       THEN /\ CDM_params_dict' = DictSet(CDM_params_dict, prior_tab[i + 1], EmptyDict)
            /\ j' = 0
            /\ pc' = "cdm_model"
       ELSE /\ pc' = "cdm_plot"
            /\ UNCHANGED <<CDM_params_dict, j>>
    /\ UNCHANGED <<err, out, i, env, ip, cdmothers>>

\* One pass of: for j in range(len(model_tab)):
\*   res=results.results_CDM_all(model_tab[j],fit_dict_in=constants.fitting_dict(...))
\*   CDM_params_dict[prior_tab[i]][model_tab[j]]=res.fit()
\* An exception raised by fit() is caught nowhere: it would end the cell.
\* (CDMModelStepStopAtNaN: the loops are left at the first NaN table.)
CDMModelStepStopAtNaN ==
    /\ pc = "cdm_model"
    /\ j < Len(model_tab)
    /\ \E nan \in NaNChoices :
         LET r == results_CDM_all(model_tab[j + 1], PriorConfig(i)) IN
         /\ env' = [env EXCEPT !["res"] = r]
         /\ CDM_params_dict' =
                [CDM_params_dict EXCEPT ![prior_tab[i + 1]] =
                    DictSet(@, model_tab[j + 1], FitResult(r, nan))]
         /\ pc' = IF nan THEN "cdm_plot" ELSE pc
         /\ UNCHANGED err
    /\ j' = j + 1
    /\ UNCHANGED <<out, i, ip, cdmothers>>
CDMModelStep ==
    /\ pc = "cdm_model"
    /\ j < Len(model_tab)
    /\ \E nan \in NaNChoices :
         LET r == results_CDM_all(model_tab[j + 1], PriorConfig(i)) IN
         /\ env' = [env EXCEPT !["res"] = r]
         /\ IF nan /\ fit_raises_on_failure
            THEN /\ pc' = "error"
                 /\ err' = "FitError"
                 /\ UNCHANGED CDM_params_dict
            ELSE /\ CDM_params_dict' =
                        [CDM_params_dict EXCEPT ![prior_tab[i + 1]] =
                            DictSet(@, model_tab[j + 1], FitResult(r, nan))]
                 /\ UNCHANGED <<pc, err>>
    /\ j' = j + 1
    /\ UNCHANGED <<out, i, ip, cdmothers>>

\* The inner loop is exhausted: the next prior regime.
CDMModelLoopEnd ==
    /\ pc = "cdm_model"
    /\ j = Len(model_tab)
    /\ i' = i + 1
    /\ pc' = "cdm_prior"
    /\ UNCHANGED <<err, out, CDM_params_dict, j, env, ip, cdmothers>>

\* The argument of plot cell c evaluates: CDM_params_dict['uni_priors'] needs
\* its key.
PlotArgDefined(c) ==
    c.arg = "uni_priors" => "uni_priors" \in DOMAIN CDM_params_dict

\* res=results.plots(); res.<method>(<argument>), one cell after the other.
CDMPlotCell ==
    /\ pc = "cdm_plot"
    /\ ip <= Len(CDMPlotCells)
    /\ LET c == CDMPlotCells[ip] IN
       IF PlotArgDefined(c)
       THEN /\ env' = [env EXCEPT !["res"] = [kind |-> "plots"],
                                  !["name_tab"] = IF c.arg = "name_tab"
                                                  THEN PyList(name_tab) ELSE @]
            /\ out' = Append(out, c.method)
            /\ ip' = ip + 1
            /\ UNCHANGED <<pc, err>>
       ELSE /\ pc' = "error"
            /\ err' = "KeyError"
            /\ UNCHANGED <<env, out, ip>>
    /\ UNCHANGED <<CDM_params_dict, i, j, cdmothers>>

\* The last cell has run.
CDMFinish ==
    /\ pc = "cdm_plot"
    /\ ip > Len(CDMPlotCells)
    /\ pc' = "done"
    /\ UNCHANGED <<err, out, CDM_params_dict, i, j, env, ip, cdmothers>>

NextCDM ==
    \/ CDMStart
    \/ CDMPriorStep
    \/ CDMModelStep
    \/ CDMModelLoopEnd
    \/ CDMPlotCell
    \/ CDMFinish

SpecCDM == InitCDM /\ [][NextCDM]_vars

(***************************************************************************)
(* The fit cells of the three check notebooks, as far as the configuration *)
(* goes: checks_DC14_NFW, checks_CDM_all and checks_Einasto_NFW.           *)
(***************************************************************************)
CheckNotebooks == {"checks_DC14_NFW", "checks_CDM_all", "checks_Einasto_NFW"}

\* fit_dict_ex=constants.fitting_dict(fit_routine='..._check')
CheckRoutine(n) ==
    CASE n = "checks_DC14_NFW" -> "DC14_check"
      [] n = "checks_CDM_all" -> "CDM_check"
      [] n = "checks_Einasto_NFW" -> "Einasto_check"

\* res=results.results_..._check(key,fit_dict_in=fit_dict_ex)
CheckClass(n) ==
    CASE n = "checks_DC14_NFW" -> "results_DC14_check"
      [] n = "checks_CDM_all" -> "results_CDM_check"
      [] n = "checks_Einasto_NFW" -> "results_Einasto_check"

\* CDM_params_dict={...}: the keys in insertion order.
CheckKeys(n) ==
    CASE n = "checks_DC14_NFW" -> <<"DC14", "NFW">>
      [] n = "checks_CDM_all" -> <<"Burkert", "DC14", "Einasto", "NFW">>
      [] n = "checks_Einasto_NFW" -> <<"Einasto", "NFW">>

InitCheckFits ==
    /\ pc = "check_config"
    /\ err = "none"
    /\ out = << >>
    /\ nb \in CheckNotebooks
    /\ CDM_params_dict = EmptyDict
    /\ env = [v \in {"fit_dict_ex", "res"} |-> Undefined]
    /\ i = 0
    /\ j = 0
    /\ ip = 1
    /\ BIC = EmptyDict /\ sum_0 = 0 /\ diffin = NaN
    /\ chisq = EmptyDict /\ redchi = << >>

\* fit_dict_ex=constants.fitting_dict(fit_routine='..._check')
CheckConfigCell ==
    /\ pc = "check_config"
    /\ env' = [env EXCEPT !["fit_dict_ex"] =
                 fitting_dict(<< <<"fit_routine", EVar("fit_routine")>> >>,
                              [v \in {"fit_routine"} |-> PyStr(CheckRoutine(nb))])]
    /\ pc' = "check_dict"
    /\ UNCHANGED <<err, out, CDM_params_dict, BIC, i, j, sum_0, diffin, chivars, ip>>

\* CDM_params_dict={'DC14':{},'NFW':{}} (the keys of the notebook)
CheckDictCell ==
    /\ pc = "check_dict"
    /\ CDM_params_dict' = [key \in {CheckKeys(nb)[x] : x \in 1..Len(CheckKeys(nb))} |-> EmptyDict]
    /\ i' = 0
    /\ pc' = "check_fit"
    /\ UNCHANGED <<err, out, BIC, j, sum_0, diffin, chivars, env, ip>>

\* One pass of: for key in CDM_params_dict:
\*   res=results.results_..._check(key,fit_dict_in=fit_dict_ex)
\*   CDM_params_dict[key]=res.fit()
CheckFitStep ==
    /\ pc = "check_fit"
    /\ \E nan \in BOOLEAN :
         LET key == CheckKeys(nb)[i + 1]
             r == [kind |-> "results", cls |-> CheckClass(nb), model |-> key,
                   kwargs |-> env["fit_dict_ex"].kwargs, ULDM_fits |-> FALSE]
         IN  /\ env' = [env EXCEPT !["res"] = r]
             /\ CDM_params_dict' = [CDM_params_dict EXCEPT ![key] = FitResult(r, nan)]
    /\ i' = i + 1
    /\ pc' = IF i + 1 < Len(CheckKeys(nb)) THEN "check_fit" ELSE "done"
    /\ UNCHANGED <<err, out, BIC, j, sum_0, diffin, chivars, ip>>

NextCheckFits ==
    \/ CheckConfigCell
    \/ CheckDictCell
    \/ CheckFitStep

(***************************************************************************)
(* Any one of the notebooks that fit, run top to bottom.                   *)
(***************************************************************************)
InitFits ==
    \/ InitULDM
    \/ InitCDM
    \/ InitCheckFits

NextFits ==
    \/ NextULDM
    \/ NextCDM
    \/ NextCheckFits

SpecFits == InitFits /\ [][NextFits]_vars

(***************************************************************************)
(* Claims about the configurations of the fits.                            *)
(***************************************************************************)
\* The halo models of the two families.
CDMModels == {"Burkert", "DC14", "Einasto", "NFW"}
WaveClasses == {"results_psi_single_all", "results_psi_multi_all"}

\* Particle-mass and wave-model options of fitting_dict.
WaveOptions ==
    {"sol_mfree", "sol_match", "sol_m22", "sol_m22_2", "sol_m22_tab", "sol_m22_2_tab",
     "sol_m22_tab_prime", "sol_m22_2_tab_prime"}

\* res is a results object on which fit() is about to be, or has been, called.
ResIsFit == env["res"].kind = "results"

\* res fits a CDM model: every results class but the two wave classes takes
\* the name of a CDM model.
ResIsCDMFit == ResIsFit /\ env["res"].cls \notin WaveClasses

\* C11 as stated: a fit of a CDM model is given no particle-mass or wave-model
\* option and no ULDM flag, in any notebook.
C11_NoULDMFlagOnCDMFits ==
    ResIsCDMFit =>
        /\ env["res"].model \in CDMModels
        /\ DOMAIN env["res"].kwargs \cap WaveOptions = {}
        /\ ~env["res"].ULDM_fits

\* C11 amended: a fit of a CDM model is given no particle-mass or wave-model
\* option of fitting_dict in any notebook (the CDM notebook and the checks
\* pass fit_routine only), and fits of the wave models take no model name;
\* the one ULDM flag a CDM fit is given is ULDM_fits=True, by the Einasto fit
\* of the ULDM notebook and by no other fit.
C11_NoWaveOptionOnCDMFits ==
    /\ ResIsCDMFit =>
          /\ env["res"].model \in CDMModels
          /\ DOMAIN env["res"].kwargs \cap WaveOptions = {}
          /\ DOMAIN env["res"].kwargs =
                IF nb = "fits_Einasto" THEN {} ELSE {"fit_routine"}
          /\ env["res"].ULDM_fits <=> nb = "fits_Einasto"
    /\ (ResIsFit /\ ~ResIsCDMFit) =>
          /\ nb = "fits_Einasto"
          /\ env["res"].model = ""
          /\ DOMAIN env["res"].kwargs \subseteq WaveOptions
          /\ ~env["res"].ULDM_fits

\* C11 witness: the CDM notebook is about to fit DC14 under an informative
\* prior regime.
C11_Witness ==
    /\ nb = "fits_CDM_all" /\ pc = "cdm_model"
    /\ ResIsCDMFit
    /\ env["res"].model = "DC14"
    /\ env["res"].kwargs["fit_routine"] = PyStr("MLd_priors_check")

(***************************************************************************)
(* Claims about the layout of the result tables the check cells read.      *)
(***************************************************************************)
\* name_tab of the DC14 check: galaxies of the fitted catalog, by name.
GalaxyNames ==
    {"NGC5055", "NGC3109", "DDO161", "UGC11557", "UGC11455", "UGC02259", "NGC3917",
     "UGC00891", "F583-1"}

\* The result tables fit() has returned so far.
ReturnedTables ==
    {CDM_params_dict[key] : key \in {k \in DOMAIN CDM_params_dict :
                                        DOMAIN CDM_params_dict[k] # {}}}

\* Array arr holds, galaxy by galaxy, statistic stat of table t: first the
\* galaxies of group 'Vbulge_none', then those of group 'Vbulge', each at its
\* position in the group's array.
ReadByGroupAndPosition(t, stat, arr) ==
    LET a == t["Vbulge_none"][stat]
        b == t["Vbulge"][stat]
    IN  /\ Len(arr) = Len(a) + Len(b)
        /\ \A g \in 1..Len(arr) : arr[g] = IF g <= Len(a) THEN a[g] ELSE b[g - Len(a)]

AllPairs ==
    {<<prior_tab[a], model_tab[b]>> : a \in 1..Len(prior_tab), b \in 1..Len(model_tab)}
PairsUpTo(a, b) ==
    {<<prior_tab[x], model_tab[y]>> : x \in 1..a, y \in 1..Len(model_tab)}
    \cup {<<prior_tab[a + 1], model_tab[y]>> : y \in 1..b}

\* The pairs the loop has passed at the current position.
PairsPassed ==
    CASE pc = "cdm_start" -> {}
      [] pc = "cdm_prior" -> PairsUpTo(i, 0)
      [] pc = "cdm_model" -> PairsUpTo(i, j)
      [] OTHER -> AllPairs

\* The stored tables whose statistics came out NaN.
NaNTables == {pm \in StoredCDM : CDM_params_dict[pm[1]][pm[2]].nan}

RECURSIVE sum_0_after(_, _, _)
sum_0_after(b, ii, n) ==
    IF n = 0 THEN 0
    ELSE sum_0_after(b, ii, n - 1) + (IF InInterval(ii, Diffin(b, n - 1)) THEN 1 ELSE 0)

\* The arrays of both models with their galaxies reordered by p, jointly.
Permuted(b, p) == [key \in DOMAIN b |-> [g \in 1..Len(b[key]) |-> b[key][p[g]]]]

\* C14: the count and the fraction the cell has printed for each interval are
\* what the cell accumulates on the same galaxies taken in any other order,
\* the entries of both models reordered together.
C14_OrderOfGalaxiesIrrelevant ==
    (pc = "done" /\ SameGalaxySet) =>
        LET n == Len(BIC["NFW"]) IN
        \A p \in Permutations(1..n) :
            LET b == Permuted(BIC, p) IN
            \A r \in 1..Len(out) :
                out[r].value = Rat(sum_0_after(b, r - 1, n), Len(b["NFW"]))

\* C14 witness: the cell has finished on two galaxies that fall in different
\* intervals, the first of them with a NaN-free dBIC of 8 and the second 0.
C14_Witness ==
    /\ pc = "done" /\ SameGalaxySet
    /\ BIC["NFW"] = <<Fin(8), Fin(0)>>
    /\ BIC["DC14"] = <<Fin(0), Fin(0)>>
    /\ out[5].value = Rat(1, 2) /\ out[3].value = Rat(1, 2)

(***************************************************************************)
(* Claims about the life of the result dictionaries of the ULDM notebook.  *)
(***************************************************************************)
\* The variables that hold results of fit().
ResultVarNames == PsiDictNames \cup {"CDM_params_dict"}

\* The variables a fit cell of each mode stores into.
ModeDicts ==
    << {MassFreeDicts[x] : x \in 1..2}, {ScanDicts[x] : x \in 1..2},
       {BestFitDicts[x] : x \in 1..2} >>

\* The statement being run is part of a plot cell.
PlotStatement == Running("plots") \/ Running("plot")

\* C15: a step of the notebook leaves every table already assigned from fit()
\* in place and unchanged, in the 'Summed' and 'Matched' entries as in the
\* Einasto table; a statement of a plot cell changes no result dictionary at
\* all; and the dictionaries of the three ULDM modes are different variables.
C15_ResultTablesImmutable ==
    [][ /\ \A d \in PsiDictNames, key \in {"Summed", "Matched"} :
              Stored(d, key) => /\ Stored(d, key)'
                                /\ env'[d].d[key] = env[d].d[key]
        /\ IsTable(env["CDM_params_dict"]) =>
              env'["CDM_params_dict"] = env["CDM_params_dict"]
        /\ PlotStatement => \A d \in ResultVarNames : env'[d] = env[d]
        /\ \A a, b \in 1..3 : a # b => ModeDicts[a] \cap ModeDicts[b] = {}
      ]_vars

\* C15 witness: the last fit of the best-fit-mass mode has just been stored
\* and the tables of the two earlier modes and of Einasto are all in place,
\* the first mass-free one with its NaN outcome.
C15_Witness ==
    /\ Running("plots")
    /\ \A d \in PsiDictNames : Stored(d, "Summed") /\ Stored(d, "Matched")
    /\ IsTable(env["CDM_params_dict"])
    /\ env["psis_m_params_dict"].d["Summed"].nan
    /\ ~env["psim_params_dict_ex"].d["Matched"].nan
    /\ out = <<"BIC_psi_mfree", "chi_psi_mfree", "Msol_psi_mfree", "chi_dist_psi_mfree",
               "params_dist_psi_mfree", "rotcurves_psi_all", "rotcurves_psi_all",
               "relations_psi_mfree", "chi_psi_mfix", "chi_gal_psi_mfix", "Msol_psi_mfix">>

(***************************************************************************)
(* The per-galaxy fitter behind fit(), as far as its statistics go.  The    *)
(* fitting engine is not among the notebooks: its statistics follow the    *)
(* design document's Per-Galaxy Fitter section.  The optimizer is opaque,  *)
(* its outcome (the chi-square at the optimum and whether it converged) is *)
(* drawn from small sets.                                                  *)
(***************************************************************************)
\* The largest number of data points of a rotation curve.
MaxPoints == 4

\* The largest number of free parameters of a halo model.
MaxParams == 3

\* The largest number of galaxies one pass of the fitter goes through.
MaxFitGal == 2

\* Chi-square values the optimizer may end at.
ChiSquares == {0, 3}

\* 1000 * ln(N), rounded, for N = 1, 2, ...
ln1000 == <<0, 693, 1099, 1386, 1609, 1792>>

\* degrees of freedom = number of data points - number of free parameters
dof(N, k) == N - k

\* reduced chi-square = chi-square / dof, NaN when dof <= 0.
\* (reduced_chi_sq_unguarded: the quotient taken whatever dof is.)
reduced_chi_sq_unguarded(chi2, N, k) ==
    IF dof(N, k) = 0 THEN (IF chi2 = 0 THEN NaN ELSE PosInf)
    ELSE IF dof(N, k) > 0 THEN Rat(chi2, dof(N, k))
    ELSE Rat(-chi2, -dof(N, k))
reduced_chi_sq(chi2, N, k) ==
    IF dof(N, k) <= 0 THEN NaN ELSE Rat(chi2, dof(N, k))

\* BIC = chi-square + k * ln(N)
bic(chi2, N, k) == Rat(1000 * chi2 + k * ln1000[N], 1000)

\* The FitResult of one galaxy: a fit that did not converge carries the flag
\* and NaN for the derived statistics.
FitResultOf(N, k, chi2, converged) ==
    [N |-> N, k |-> k, chi2 |-> chi2, converged |-> converged,
     dof |-> dof(N, k),
     Chi_sq |-> IF converged THEN reduced_chi_sq(chi2, N, k) ELSE NaN,
     BIC |-> IF converged THEN bic(chi2, N, k) ELSE NaN]

InitFitter ==
    /\ pc = "fitter"
    /\ err = "none"
    /\ out = << >>
    /\ i = 0
    /\ nb = "fitter"
    /\ CDM_params_dict = EmptyDict
    /\ BIC = EmptyDict /\ j = 0 /\ sum_0 = 0 /\ diffin = NaN
    /\ chisq = EmptyDict /\ redchi = << >>
    /\ env = EmptyDict /\ ip = 0

\* The fitter takes the next galaxy: N data points, a model of k free
\* parameters, and the optimizer's outcome; it appends the galaxy's FitResult.
FitGalaxy ==
    /\ pc = "fitter"
    /\ i < MaxFitGal
    /\ \E N \in 1..MaxPoints, k \in 1..MaxParams, chi2 \in ChiSquares, converged \in BOOLEAN :
         out' = Append(out, FitResultOf(N, k, chi2, converged))
    /\ i' = i + 1
    /\ UNCHANGED <<pc, err, nb, CDM_params_dict, BIC, j, sum_0, diffin, chisq, redchi,
                   env, ip>>

\* The pass over the galaxies ends.
FitterDone ==
    /\ pc = "fitter"
    /\ pc' = "done"
    /\ UNCHANGED <<err, out, i, nb, CDM_params_dict, BIC, j, sum_0, diffin, chisq, redchi,
                   env, ip>>

NextFitter ==
    \/ FitGalaxy
    \/ FitterDone

SpecFitter == InitFitter /\ [][NextFitter]_vars

(***************************************************************************)
(* Claims about the statistics of a fit.                                   *)
(***************************************************************************)
\* C16: in every FitResult the degrees of freedom are the number of data
\* points minus the number of free parameters; when they are 0 or less the
\* reduced chi-square reported is NaN, and a converged fit still reports its
\* BIC, chi-square + k ln N; when they are 1 or more a converged fit reports
\* chi-square / dof.
C16_ReducedChiSqNeedsDof ==
    \A g \in 1..Len(out) :
        LET r == out[g] IN
        /\ r.dof = r.N - r.k
        /\ r.dof <= 0 => IsNaN(r.Chi_sq)
        /\ (r.dof <= 0 /\ r.converged) =>
              /\ IsFin(r.BIC)
              /\ r.BIC.n = r.BIC.d * r.chi2 + r.k * ln1000[r.N] * (r.BIC.d \div 1000)
        /\ (r.dof >= 1 /\ r.converged) =>
              /\ IsFin(r.Chi_sq)
              /\ r.Chi_sq.n * r.dof = r.chi2 * r.Chi_sq.d

\* C16 witness: a converged fit of three parameters to two data points, with a
\* non-zero chi-square, next to one with three degrees of freedom.
C16_Witness ==
    /\ Len(out) = 2
    /\ out[1].converged /\ out[1].N = 2 /\ out[1].k = 3 /\ out[1].chi2 = 3
    /\ IsNaN(out[1].Chi_sq) /\ IsFin(out[1].BIC)
    /\ out[2].converged /\ out[2].dof = 3 /\ out[2].Chi_sq = Rat(3, 3)

\* The configuration a table was fitted under holds fit_routine = prior and
\* nothing else.
ConfiguredFor(t, prior) ==
    /\ DOMAIN t.kwargs = {"fit_routine"}
    /\ t.kwargs["fit_routine"] = PyStr(prior)

\* C17: every table stored at [prior][model] comes from results_CDM_all for
\* that model, configured with fit_routine equal to that prior and nothing
\* else, so the models of one regime are fitted under equal configurations;
\* once the loop is over, the dictionary holds the 5 regimes, each with the 4
\* models, 20 tables in all; and no step assigns an entry that already holds
\* a table.
C17_OneTablePerPriorAndModel ==
    /\ [](/\ \A pm \in StoredCDM :
                LET t == CDM_params_dict[pm[1]][pm[2]] IN
                /\ IsTable(t)
                /\ t.cls = "results_CDM_all"
                /\ t.model = pm[2]
                /\ ConfiguredFor(t, pm[1])
          /\ \A p \in DOMAIN CDM_params_dict :
                \A m1, m2 \in DOMAIN CDM_params_dict[p] :
                    CDM_params_dict[p][m1].kwargs = CDM_params_dict[p][m2].kwargs
          /\ pc \in {"cdm_plot", "done"} =>
                /\ DOMAIN CDM_params_dict = {prior_tab[a] : a \in 1..Len(prior_tab)}
                /\ \A p \in DOMAIN CDM_params_dict :
                      DOMAIN CDM_params_dict[p] = {model_tab[b] : b \in 1..Len(model_tab)}
                /\ Cardinality(StoredCDM) = 20)
    /\ [][\A pm \in StoredCDM :
              /\ pm \in StoredCDM'
              /\ CDM_params_dict'[pm[1]][pm[2]] = CDM_params_dict[pm[1]][pm[2]]]_vars

\* C17 witness: the loop is over with its 20 tables; the NFW table of the last
\* regime was fitted under MLb_priors_check and the Burkert table of the first
\* under uni_priors.
C17_Witness ==
    /\ pc = "cdm_plot" /\ ip = 1
    /\ Cardinality(StoredCDM) = 20
    /\ ConfiguredFor(CDM_params_dict["MLb_priors_check"]["NFW"], "MLb_priors_check")
    /\ ConfiguredFor(CDM_params_dict["uni_priors"]["Burkert"], "uni_priors")
    /\ CDM_params_dict["uni_priors"]["Burkert"].nan

(***************************************************************************)
(* Claims about the order of fits and plots.                               *)
(***************************************************************************)
\* The value of variable a of the ULDM notebook is ready to be plotted: a
\* 'Summed'/'Matched' dictionary holds both its tables, CDM_params_dict holds
\* the Einasto table, name_tab holds the galaxy names.
ReadyToPlot(a) ==
    CASE a \in PsiDictNames -> Stored(a, "Summed") /\ Stored(a, "Matched")
      [] a = "CDM_params_dict" ->
            /\ IsTable(env[a])
            /\ env[a].cls = "results_CDM_all" /\ env[a].model = "Einasto"
      [] a = "name_tab" -> env[a] = PyList(name_tab)
      [] OTHER -> FALSE

\* C18: whenever a plot method is about to be called, res is a plots object
\* and every argument is complete: in the ULDM notebook each dictionary passed
\* holds both its 'Summed' and its 'Matched' table and CDM_params_dict holds
\* the Einasto table; in the CDM notebook the loop has stored all 20 tables.
C18_PlotsAfterCompletedFits ==
    /\ Running("plot") =>
          /\ env["res"].kind = "plots"
          /\ \A x \in 1..Len(Program[ip].args) : ReadyToPlot(Program[ip].args[x])
          /\ Program[ip].with_fit_dict => env["fit_dict_ex"].kind = "fit_dict"
    /\ (pc = "cdm_plot" /\ ip <= Len(CDMPlotCells)) =>
          /\ StoredCDM = AllPairs
          /\ PlotArgDefined(CDMPlotCells[ip])

\* C18 witness: the ULDM notebook is about to call the first comparison with
\* Einasto, BIC_psi_mfree, on tables of which one came back NaN.
C18_Witness ==
    /\ Running("plot")
    /\ Program[ip].method = "BIC_psi_mfree"
    /\ IsTable(env["CDM_params_dict"])
    /\ env["psim_m_params_dict"].d["Matched"].nan
    /\ out = << >>

====
